---------------------------- MODULE Spec2Model ----------------------------
(***************************************************************************)
(* A model of skylark's parallel transfer helpers:                         *)
(*   - do_parallel, ConcurrentCounter, wait_for                            *)
(*                            (src/skylark/utils/utils.py)                  *)
(*   - parse_path, is_plausible_local_path,                                *)
(*     copy_local_local, copy_local_s3, copy_s3_local                      *)
(*                            (src/skylark/cli/cli_helper.py)              *)
(* Each helper is run by a specification of its own (SpecDP, SpecCopy,     *)
(* SpecCounter, SpecWait, SpecParse, SpecTransfer) over one list of        *)
(* variables; the variables of the helpers a specification does not run    *)
(* keep their idle values.                                                 *)
(* The thread pool and as_completed of concurrent.futures are modelled by   *)
(* what they do: a FIFO work queue served by at most max_workers threads,   *)
(* and an iterator that first yields, in arbitrary (set) order, the futures *)
(* that were already finished when it was entered and then the others in    *)
(* the order they finish.                                                  *)
(***************************************************************************)
EXTENDS Integers, Sequences, FiniteSets

\* ------------------------------------------------------------------ bounds

MaxItems == 3
MaxNodes == 4       \* nodes of the local source tree
MaxSize == 2        \* file and object sizes are 1..MaxSize
MaxObjects == 2     \* objects in the bucket
MaxChanges == 1     \* changes other processes make to the source tree during a copy

\* --------------------------------------------------------------- variables

VARIABLES
    mode,           \* which entry point this behaviour runs
    pc,             \* position of the calling thread
    fut,            \* future id -> "none" | "queued" | "running" | "ok" | "err"
    ops,            \* futures in creation order (future_list / ops)
    early,          \* as_completed: finished on entry, not yet yielded
    waiterq,        \* as_completed: finished since entry, not yet yielded
    observed,       \* futures yielded by as_completed so far, in order
    err,            \* the error that left the call: [kind, id], kind "none" if none
    items,          \* do_parallel: args_list
    n,              \* do_parallel: the concurrency width argument
    queue,          \* ThreadPoolExecutor: submitted work not yet taken by a worker
    results,        \* do_parallel: the list it returns
    hooked,         \* do_parallel: items pbar.update() was called for, in order
    finishOrder,    \* history: futures in the order their invocation finished
    pendingAtFail,  \* history: what was still queued when the first failure was observed
    earlyAtEntry,   \* history: the futures already finished when as_completed was entered
    srcKind,        \* local source tree: node -> "none" | "file" | "dir"
    srcSize,        \* local source tree: node -> st_size now (0 unless a file)
    src_key,        \* copy_s3_local: the prefix
    listing,        \* copy_s3_local: what list_objects(prefix=src_key) yields
    todo,           \* enumeration still to do: tree nodes, or positions of listing
    total_bytes,    \* the sum _copy has returned so far
    pbar_n,         \* bytes reported to the progress bar so far
    unitSize,       \* history: future -> the size counted for it at enumeration
    dstDirs,        \* directories that exist under the local destination
    dstFiles,       \* files that exist under the local destination
    dstParent,      \* whether dst.parent exists
    dst0,           \* history: the destination when the copy was called
    changes         \* changes made to the source tree by others so far

dpVars == <<items, n, queue, results, hooked, finishOrder, pendingAtFail, earlyAtEntry>>

cpVars == <<srcKind, srcSize, src_key, listing, todo, total_bytes, pbar_n, unitSize,
            dstDirs, dstFiles, dstParent, dst0, changes>>

\* The state of the other helpers of utils.py, each run by a specification
\* of its own.
VARIABLES
    val,            \* ConcurrentCounter: self.val.value, a C int
    lock,           \* ConcurrentCounter: the thread holding self.val.get_lock(), or 0
    min_value,      \* ConcurrentCounter: self.min_value, None or <<m>>
    max_value,      \* ConcurrentCounter: self.max_value, None or <<m>>
    tpc,            \* thread -> its position in increment
    targ,           \* thread -> the n of its call
    tnew,           \* thread -> its new_val
    ncalls,         \* calls of increment made so far
    sumN            \* history: the exact sum of the n of the calls that returned

ccVars == <<val, lock, min_value, max_value, tpc, targ, tnew, ncalls, sumN>>

VARIABLES
    now,            \* wait_for: what time.time() returns
    start,          \* wait_for: start
    timeout,        \* wait_for: timeout
    interval,       \* wait_for: interval
    polled,         \* history: fn was called at least once
    lastPoll,       \* history: "truthy" or "falsy" as the last call of fn returned, else "none"
    returnValue     \* what wait_for returned ("True"), "none" before it returns

wfVars == <<now, start, timeout, interval, polled, lastPoll, returnValue>>

VARIABLES
    pathString,     \* parse_path: the string it is called with
    fileSystem,     \* the local file system: path -> "file" | "dir", for what exists
    parsed,         \* parse_path: what it returned or raised
    dstString,      \* a transfer: the destination string (pathString is the source)
    dstParsed,      \* a transfer: what parse_path gave for the destination
    listCalls       \* a transfer: listing calls made to an object store so far

ppVars == <<pathString, fileSystem, parsed, dstString, dstParsed, listCalls>>

xVars == <<ccVars, wfVars, ppVars>>

\* Python's None, for an optional integer held as <<m>>.
None == <<>>

\* No counter is in use.
IdleCounter ==
    /\ val = 0 /\ lock = 0 /\ min_value = None /\ max_value = None
    /\ tpc = <<>> /\ targ = <<>> /\ tnew = <<>> /\ ncalls = 0 /\ sumN = [q |-> 0, v |-> 0]

\* No wait_for is running.
IdleWait ==
    /\ now = 0 /\ start = 0 /\ timeout = 0 /\ interval = 0
    /\ polled = FALSE /\ lastPoll = "none" /\ returnValue = "none"

\* No parse_path is running.
IdleParse ==
    /\ pathString = <<>> /\ fileSystem = <<>> /\ parsed = [ret |-> "none", tag |-> "", f |-> <<>>]
    /\ dstString = <<>> /\ dstParsed = [ret |-> "none", tag |-> "", f |-> <<>>]
    /\ listCalls = 0

IdleX == IdleCounter /\ IdleWait /\ IdleParse

vars == <<mode, pc, fut, ops, early, waiterq, observed, err, dpVars, cpVars, xVars>>

\* ----------------------------------------------------------------- helpers

Range(s) == {s[i] : i \in DOMAIN s}

Done == {"ok", "err"}

NoErr == [kind |-> "none", id |-> 0, phase |-> "none"]

SeqsUpTo(S, k) == UNION {[1..m -> S] : m \in 0..k}

Running == {f \in DOMAIN fut : fut[f] = "running"}

\* ------------------------------------------------- concurrent.futures

\* as_completed(fs) on entry: the futures already finished.
FinishedOf(fs) == {f \in fs : fut[f] \in Done}

\* The futures as_completed may yield next.
NextYield ==
    IF early # {} THEN early
    ELSE IF waiterq # <<>> THEN {Head(waiterq)}
    ELSE {}

\* Removing a yielded future from the iterator's state.
YieldEarly(f) == early \ {f}
YieldWaiter(f) == IF early = {} /\ waiterq # <<>> /\ Head(waiterq) = f
                  THEN Tail(waiterq) ELSE waiterq

\* ------------------------------------------------------------- do_parallel

\* The values an item may have: two, so that equal and different items occur.
ItemVals == {1, 2}

\* func, the caller's function: any fixed function of the item that is not the identity.
Func(v) == v + 10

wrapped_fn(args) == <<args, Func(args)>>

AppendResultOnce(rs, pair) == IF pair \in Range(rs) THEN rs ELSE Append(rs, pair)
AppendResultFront(rs, pair) == <<pair>> \o rs
AppendResult(rs, pair) == Append(rs, pair)

NextArg == Len(ops) + 1

\* lines 57-58 and 65: the pool's width.
max_workers == IF n = -1 THEN Len(items) ELSE n

PoolAlwaysHasSlot == TRUE
PoolHasSlot == Cardinality(Running) < max_workers

\* shutdown(wait=True): every pool thread has run the queue dry and ended.
PoolNotWaited == TRUE
PoolDrainedRunningOnly == Running = {}
PoolDrained == queue = <<>> /\ \A f \in DOMAIN fut : fut[f] \in Done

\* lines 68-71: pbar.update() is reached only when future.result() returned.
HookedAfterAlways(f) == Append(hooked, f)
HookedAfter(f) == IF fut[f] = "ok" THEN Append(hooked, f) ELSE hooked

InitDP ==
    /\ mode = "do_parallel"
    /\ pc = "call"
    /\ items \in SeqsUpTo(ItemVals, MaxItems)
    /\ n \in {-1} \cup (1..MaxItems)
    /\ fut = [f \in DOMAIN items |-> "none"]
    /\ ops = <<>>
    /\ early = {}
    /\ waiterq = <<>>
    /\ observed = <<>>
    /\ err = NoErr
    /\ queue = <<>>
    /\ results = <<>>
    /\ hooked = <<>>
    /\ finishOrder = <<>>
    /\ pendingAtFail = {}
    /\ earlyAtEntry = {}
    /\ IdleX
    /\ srcKind = <<>> /\ srcSize = <<>> /\ src_key = <<>> /\ listing = <<>>
    /\ todo = <<>> /\ total_bytes = 0 /\ pbar_n = 0 /\ unitSize = <<>>
    /\ dstDirs = {} /\ dstFiles = {} /\ dstParent = TRUE
    /\ dst0 = [dirs |-> {}, files |-> {}, parent |-> TRUE]
    /\ changes = 0

\* lines 50-52: the empty list returns at once, before any pool exists.
DPCall ==
    /\ mode = "do_parallel" /\ pc = "call"
    /\ pc' = IF Len(items) = 0 THEN "returned" ELSE "submit"
    /\ UNCHANGED <<mode, fut, ops, early, waiterq, observed, err, items, n, queue,
                   results, hooked, finishOrder, pendingAtFail, earlyAtEntry, cpVars, xVars>>

\* line 66: one executor.submit per element of args_list.
DPSubmit ==
    /\ mode = "do_parallel" /\ pc = "submit"
    /\ Len(ops) < Len(items)
    /\ LET f == NextArg IN
        /\ ops' = Append(ops, f)
        /\ queue' = Append(queue, f)
        /\ fut' = [fut EXCEPT ![f] = "queued"]
    /\ UNCHANGED <<mode, pc, early, waiterq, observed, err, items, n,
                   results, hooked, finishOrder, pendingAtFail, earlyAtEntry, cpVars, xVars>>

\* line 67: as_completed(future_list) is entered.
DPEnterLoop ==
    /\ mode = "do_parallel" /\ pc = "submit"
    /\ Len(ops) = Len(items)
    /\ pc' = "loop"
    /\ early' = FinishedOf(Range(ops))
    /\ earlyAtEntry' = FinishedOf(Range(ops))
    /\ waiterq' = <<>>
    /\ UNCHANGED <<mode, fut, ops, observed, err, items, n, queue,
                   results, hooked, finishOrder, pendingAtFail, cpVars, xVars>>

\* A pool thread takes the oldest queued work item.
WorkerStart ==
    /\ mode = "do_parallel"
    /\ queue # <<>>
    /\ PoolHasSlot
    /\ fut' = [fut EXCEPT ![Head(queue)] = "running"]
    /\ queue' = Tail(queue)
    /\ UNCHANGED <<mode, pc, ops, early, waiterq, observed, err, items, n,
                   results, hooked, finishOrder, pendingAtFail, earlyAtEntry, cpVars, xVars>>

\* wrapped_fn returns or raises in a pool thread; the future is set.
WorkerFinish(f, outcome) ==
    /\ mode = "do_parallel"
    /\ fut[f] = "running"
    /\ fut' = [fut EXCEPT ![f] = outcome]
    /\ finishOrder' = Append(finishOrder, f)
    /\ waiterq' = IF pc = "loop" THEN Append(waiterq, f) ELSE waiterq
    /\ UNCHANGED <<mode, pc, ops, early, observed, err, items, n, queue,
                   results, hooked, pendingAtFail, earlyAtEntry, cpVars, xVars>>

\* lines 67-71: one iteration of the loop over as_completed.
DPObserve(f) ==
    /\ mode = "do_parallel" /\ pc = "loop"
    /\ f \in NextYield
    /\ early' = YieldEarly(f)
    /\ waiterq' = YieldWaiter(f)
    /\ observed' = Append(observed, f)
    /\ hooked' = HookedAfter(f)
    /\ IF fut[f] = "ok"
       THEN /\ results' = AppendResult(results, wrapped_fn(items[f]))
            /\ UNCHANGED <<pc, err, pendingAtFail>>
       ELSE /\ pc' = "exit"
            /\ err' = [kind |-> "func", id |-> f, phase |-> "loop"]
            /\ pendingAtFail' = Range(queue)
            /\ UNCHANGED results
    /\ UNCHANGED <<mode, fut, ops, items, n, queue, finishOrder, earlyAtEntry, cpVars, xVars>>

\* as_completed is exhausted: every future was yielded.
DPLoopEnd ==
    /\ mode = "do_parallel" /\ pc = "loop"
    /\ Len(observed) = Len(items)
    /\ pc' = "exit"
    /\ UNCHANGED <<mode, fut, ops, early, waiterq, observed, err, items, n, queue,
                   results, hooked, finishOrder, pendingAtFail, earlyAtEntry, cpVars, xVars>>

\* line 65, leaving the with block: shutdown(wait=True) joins the pool
\* threads, which first run everything still queued.
DPExit ==
    /\ mode = "do_parallel" /\ pc = "exit"
    /\ PoolDrained
    /\ pc' = IF err.kind = "none" THEN "returned" ELSE "raised"
    /\ UNCHANGED <<mode, fut, ops, early, waiterq, observed, err, items, n, queue,
                   results, hooked, finishOrder, pendingAtFail, earlyAtEntry, cpVars, xVars>>

NextDP ==
    \/ DPCall
    \/ DPSubmit
    \/ DPEnterLoop
    \/ WorkerStart
    \/ \E f \in DOMAIN fut, outcome \in Done : WorkerFinish(f, outcome)
    \/ \E f \in DOMAIN fut : DPObserve(f)
    \/ DPLoopEnd
    \/ DPExit

SpecDP == InitDP /\ [][NextDP]_vars

\* ------------------------------------------------------------------- paths
\* A path is a sequence of one-character strings; <<>> is the destination
\* itself, every other path is relative to it.

Nodes == 1..MaxNodes

\* The local source tree: node 1 is src, node k has the children 2k and 2k+1.
Parent(k) == k \div 2
Name(k) == IF k % 2 = 0 THEN "a" ELSE "b"

RECURSIVE RelPath(_)
RelPath(k) ==
    IF k = 1 THEN <<>>
    ELSE IF Parent(k) = 1 THEN <<Name(k)>>
    ELSE RelPath(Parent(k)) \o <<"/", Name(k)>>

RECURSIVE IsUnder(_, _)
IsUnder(j, k) == j = k \/ (j > k /\ IsUnder(Parent(j), k))

\* path.iterdir(): the children that exist.
Children(k) ==
    SelectSeq(<<2 * k, 2 * k + 1>>, LAMBDA c : c \in Nodes /\ srcKind[c] # "none")

\* The directories above a path, the destination itself included.
Ancestors(p) ==
    IF p = <<>> THEN {}
    ELSE {<<>>} \cup {SubSeq(p, 1, i - 1) : i \in {j \in DOMAIN p : p[j] = "/"}}

\* str.lstrip("/")
RECURSIVE lstrip(_)
lstrip(t) == IF t # <<>> /\ Head(t) = "/" THEN lstrip(Tail(t)) ELSE t

\* pathlib's dst / sub_key: repeated and trailing separators are dropped.
RECURSIVE Collapse(_)
Collapse(t) ==
    IF t = <<>> THEN <<>>
    ELSE IF Head(t) = "/" /\ (Len(t) = 1 \/ t[2] = "/") THEN Collapse(Tail(t))
    ELSE <<Head(t)>> \o Collapse(Tail(t))

HasPrefix(t, pre) == Len(pre) <= Len(t) /\ SubSeq(t, 1, Len(pre)) = pre

\* lines 124-126: the destination of an object, relative to dst.
DestPath(key) == Collapse(lstrip(SubSeq(key, Len(src_key) + 1, Len(key))))

\* ------------------------------------------------------- the three copies

LocalModes == {"local_local", "local_s3"}
FutureModes == {"local_s3", "s3_local"}

\* The trees a source path can be: a child exists only in a directory, and
\* a file has a size of 1..MaxSize.
Trees ==
    {t \in [Nodes -> {"none", "file", "dir"}] :
        \A k \in Nodes : (k # 1 /\ t[k] # "none") => t[Parent(k)] = "dir"}

SizesOf(t) ==
    {z \in [Nodes -> 0..MaxSize] : \A k \in Nodes : (z[k] = 0) <=> (t[k] # "file")}

\* The keys the bucket may hold, and the prefixes asked for.
KeyPool == << <<"p", "/", "a">>, <<"p", "/", "/", "a">>,
              <<"p", "/", "b", "/", "a">>, <<"p", "a">> >>

Prefixes == { <<"p">>, <<"p", "/">> }

\* list_objects(prefix): the objects of the bucket whose key has the prefix.
Listing(held, size, pre) ==
    LET idx == SelectSeq([i \in 1..Len(KeyPool) |-> i],
                         LAMBDA i : i \in held /\ HasPrefix(KeyPool[i], pre))
    IN [j \in 1..Len(idx) |-> [key |-> KeyPool[idx[j]], size |-> size[idx[j]]]]

Buckets ==
    {h \in SUBSET (1..Len(KeyPool)) : Cardinality(h) <= MaxObjects}

\* The destination when the copy is called: <<dirs, files, dst.parent exists>>.
Destinations ==
    { <<{}, {}, FALSE>>, <<{}, {}, TRUE>>, <<{<<>>}, {}, TRUE>>, <<{}, {<<>>}, TRUE>> }

InitFutures ==
    /\ ops = <<>> /\ early = {} /\ waiterq = <<>> /\ observed = <<>>
    /\ err = NoErr
    /\ items = <<>> /\ n = -1 /\ queue = <<>> /\ results = <<>> /\ hooked = <<>>
    /\ finishOrder = <<>> /\ pendingAtFail = {} /\ earlyAtEntry = {}
    /\ total_bytes = 0 /\ pbar_n = 0 /\ changes = 0
    /\ IdleX

InitLocal ==
    /\ mode \in LocalModes
    /\ pc = "enum"
    /\ srcKind \in Trees
    /\ srcSize \in SizesOf(srcKind)
    /\ src_key = <<>> /\ listing = <<>>
    /\ todo = <<1>>
    /\ fut = IF mode = "local_s3" THEN [k \in Nodes |-> "none"] ELSE <<>>
    /\ unitSize = IF mode = "local_s3" THEN [k \in Nodes |-> 0] ELSE <<>>
    /\ \E d \in (IF mode = "local_s3" THEN { <<{}, {}, TRUE>> } ELSE Destinations) :
        /\ dstDirs = d[1] /\ dstFiles = d[2] /\ dstParent = d[3]
        /\ dst0 = [dirs |-> d[1], files |-> d[2], parent |-> d[3]]
    /\ InitFutures

InitRemote ==
    /\ mode = "s3_local"
    /\ pc = "enum"
    /\ srcKind = <<>> /\ srcSize = <<>>
    /\ src_key \in Prefixes
    /\ \E h \in Buckets, z \in [1..Len(KeyPool) -> 1..MaxSize] :
        listing = Listing(h, z, src_key)
    /\ todo = [i \in DOMAIN listing |-> i]
    /\ fut = [i \in DOMAIN listing |-> "none"]
    /\ unitSize = [i \in DOMAIN listing |-> 0]
    /\ \E d \in Destinations :
        /\ dstDirs = d[1] /\ dstFiles = d[2] /\ dstParent = d[3]
        /\ dst0 = [dirs |-> d[1], files |-> d[2], parent |-> d[3]]
    /\ InitFutures

InitCopy == InitLocal \/ InitRemote

\* An exception leaves the copy.
CopyRaise(kind, id, phase) ==
    /\ pc' = "raised"
    /\ err' = [kind |-> kind, id |-> id, phase |-> phase]

\* ---- copy_local_local

\* lines 72: dst.parent.exists(), for the destination of node k.
DstParentExists(k) ==
    IF k = 1 THEN dstParent
    ELSE \A d \in Ancestors(RelPath(k)) : d \in dstDirs

\* lines 70-73: the two checks a call starts with.
LLChecksDropped(k) == "none"
LLChecks(k) ==
    IF srcKind[k] = "none" THEN "FileNotFoundError:src"
    ELSE IF ~DstParentExists(k) THEN "FileNotFoundError:dst.parent"
    ELSE "none"

\* A variant that makes the directories of all child directories up front.
LLBodyEagerDirs(k) ==
    LET here == RelPath(k)
        same == [e |-> "none", dirs |-> dstDirs, files |-> dstFiles,
                 parent |-> dstParent, push |-> <<>>]
        below == {RelPath(c) : c \in {j \in Nodes : Parent(j) = k /\ srcKind[j] = "dir"}}
    IN  IF srcKind[k] = "dir"
        THEN [same EXCEPT !.dirs = dstDirs \cup {here} \cup below, !.push = Children(k)]
        ELSE [same EXCEPT !.files = dstFiles \cup {here}]

\* lines 75-81: what a call does once the checks passed: the error it ends
\* with, the destination it leaves, and the children it goes on to.
LLBody(k) ==
    LET here == RelPath(k)
        same == [e |-> "none", dirs |-> dstDirs, files |-> dstFiles,
                 parent |-> dstParent, push |-> <<>>]
    IN  IF srcKind[k] = "dir"
        THEN IF here \in dstFiles
             THEN [same EXCEPT !.e = "FileExistsError"]
             ELSE [same EXCEPT !.dirs = dstDirs \cup {here}, !.push = Children(k)]
        ELSE LET made == [same EXCEPT !.dirs = dstDirs \cup Ancestors(here),
                                      !.parent = TRUE]
             IN  IF srcKind[k] = "none"
                 THEN [made EXCEPT !.e = "FileNotFoundError:src"]
                 ELSE IF here \in dstDirs
                 THEN [made EXCEPT !.e = "IsADirectoryError"]
                 ELSE [made EXCEPT !.files = dstFiles \cup {here}]

\* One call of copy_local_local, on the node the recursion has reached.
LLVisit ==
    /\ mode = "local_local" /\ pc = "enum"
    /\ todo # <<>>
    /\ LET k == Head(todo)
           c == LLChecks(k)
           b == LLBody(k)
       IN  IF c # "none"
           THEN /\ CopyRaise(c, k, "enum")
                /\ UNCHANGED <<todo, dstDirs, dstFiles, dstParent>>
           ELSE /\ dstDirs' = b.dirs
                /\ dstFiles' = b.files
                /\ dstParent' = b.parent
                /\ IF b.e # "none"
                   THEN CopyRaise(b.e, k, "enum") /\ UNCHANGED todo
                   ELSE todo' = b.push \o Tail(todo) /\ UNCHANGED <<pc, err>>
    /\ UNCHANGED <<mode, fut, ops, early, waiterq, observed, dpVars, xVars, srcKind, srcSize,
                   src_key, listing, total_bytes, pbar_n, unitSize, dst0, changes>>

\* The outermost call returns.
LLReturn ==
    /\ mode = "local_local" /\ pc = "enum"
    /\ todo = <<>>
    /\ pc' = "returned"
    /\ UNCHANGED <<mode, fut, ops, early, waiterq, observed, err, dpVars, xVars, cpVars>>

\* ---- copy_local_s3

\* lines 92 and 127: total_size += the size _copy returned.
AddSizeOverwrite(total, size) == size
AddSize(total, size) == total + size

\* lines 95 and 117: upload_object / download_object hand back a future whose
\* transfer is under way.
Dispatched(f) == [fut EXCEPT ![f] = "running"]

\* lines 89-98: one call of _copy, on the node the recursion has reached.
UpVisit ==
    /\ mode = "local_s3" /\ pc = "enum"
    /\ todo # <<>>
    /\ LET k == Head(todo) IN
        IF srcKind[k] = "dir"
        THEN /\ todo' = Children(k) \o Tail(todo)
             /\ UNCHANGED <<pc, err, fut, ops, total_bytes, unitSize>>
        ELSE /\ ops' = Append(ops, k)
             /\ fut' = Dispatched(k)
             /\ IF srcKind[k] = "none"
                THEN /\ CopyRaise("FileNotFoundError:src", k, "enum")
                     /\ UNCHANGED <<todo, total_bytes, unitSize>>
                ELSE /\ total_bytes' = AddSize(total_bytes, srcSize[k])
                     /\ unitSize' = [unitSize EXCEPT ![k] = srcSize[k]]
                     /\ todo' = Tail(todo)
                     /\ UNCHANGED <<pc, err>>
    /\ UNCHANGED <<mode, early, waiterq, observed, dpVars, xVars, srcKind, srcSize, src_key,
                   listing, pbar_n, dstDirs, dstFiles, dstParent, dst0, changes>>

\* ---- copy_s3_local

\* lines 115-127: one iteration of the loop over the listing.
DownVisit ==
    /\ mode = "s3_local" /\ pc = "enum"
    /\ todo # <<>>
    /\ LET i == Head(todo)
           dest == DestPath(listing[i].key)
       IN  IF \E d \in Ancestors(dest) : d \in dstFiles
           THEN /\ CopyRaise("FileExistsError", i, "enum")
                /\ UNCHANGED <<todo, fut, ops, total_bytes, unitSize,
                               dstDirs, dstParent>>
           ELSE /\ dstDirs' = dstDirs \cup Ancestors(dest)
                /\ dstParent' = TRUE
                /\ ops' = Append(ops, i)
                /\ fut' = Dispatched(i)
                /\ total_bytes' = AddSize(total_bytes, listing[i].size)
                /\ unitSize' = [unitSize EXCEPT ![i] = listing[i].size]
                /\ todo' = Tail(todo)
                /\ UNCHANGED <<pc, err>>
    /\ UNCHANGED <<mode, early, waiterq, observed, dpVars, xVars, srcKind, srcSize, src_key,
                   listing, pbar_n, dstFiles, dst0, changes>>

\* line 123: the listing call (or one of its pages) raises.
ListFail ==
    /\ mode = "s3_local" /\ pc = "enum"
    /\ CopyRaise("ListingError", 0, "enum")
    /\ UNCHANGED <<mode, fut, ops, early, waiterq, observed, dpVars, xVars, cpVars>>

\* ---- the uploads and downloads, and the loop that waits for them

\* An upload or download ends in the object-store client's own thread.
TransferFinish(f, outcome) ==
    /\ mode \in FutureModes
    /\ fut[f] = "running"
    /\ outcome = "ok" =>
          IF mode = "local_s3" THEN srcKind[f] = "file"
          ELSE DestPath(listing[f].key) \notin dstDirs
    /\ fut' = [fut EXCEPT ![f] = outcome]
    /\ waiterq' = IF pc = "progress" THEN Append(waiterq, f) ELSE waiterq
    /\ dstFiles' = IF mode = "s3_local" /\ outcome = "ok"
                   THEN dstFiles \cup {DestPath(listing[f].key)} ELSE dstFiles
    /\ UNCHANGED <<mode, pc, ops, early, observed, err, dpVars, xVars, srcKind, srcSize,
                   src_key, listing, todo, total_bytes, pbar_n, unitSize, dstDirs,
                   dstParent, dst0, changes>>

\* lines 100-104 and 122-131: the enumeration is over, total_bytes is set,
\* and as_completed(ops) is entered.
CopyEnterProgress ==
    /\ mode \in FutureModes /\ pc = "enum"
    /\ todo = <<>>
    /\ pc' = "progress"
    /\ early' = FinishedOf(Range(ops))
    /\ waiterq' = <<>>
    /\ UNCHANGED <<mode, fut, ops, observed, err, dpVars, xVars, cpVars>>

\* lines 106 and 133: the size the progress bar is advanced by.
ReportedSize(f) == IF mode = "local_s3" THEN srcSize[f] ELSE listing[f].size

\* lines 104-106 and 131-133: one iteration of the loop over as_completed.
CopyObserve(f) ==
    /\ mode \in FutureModes /\ pc = "progress"
    /\ f \in NextYield
    /\ early' = YieldEarly(f)
    /\ waiterq' = YieldWaiter(f)
    /\ observed' = Append(observed, f)
    /\ IF fut[f] = "err"
       THEN CopyRaise("TransferError", f, "progress") /\ UNCHANGED pbar_n
       ELSE IF mode = "local_s3" /\ srcKind[f] # "file"
       THEN CopyRaise("FileNotFoundError:src", f, "progress") /\ UNCHANGED pbar_n
       ELSE pbar_n' = pbar_n + ReportedSize(f) /\ UNCHANGED <<pc, err>>
    /\ UNCHANGED <<mode, fut, ops, dpVars, xVars, srcKind, srcSize, src_key, listing, todo,
                   total_bytes, unitSize, dstDirs, dstFiles, dstParent, dst0, changes>>

\* as_completed is exhausted: the copy returns.
CopyReturn ==
    /\ mode \in FutureModes /\ pc = "progress"
    /\ Len(observed) = Len(ops)
    /\ pc' = "returned"
    /\ UNCHANGED <<mode, fut, ops, early, waiterq, observed, err, dpVars, xVars, cpVars>>

\* ---- other processes, changing the source tree while the copy runs

\* A source file is rewritten with another size.
EnvResize(k, size) ==
    /\ mode \in LocalModes /\ pc \in {"enum", "progress"}
    /\ changes < MaxChanges
    /\ srcKind[k] = "file" /\ size # srcSize[k]
    /\ srcSize' = [srcSize EXCEPT ![k] = size]
    /\ changes' = changes + 1
    /\ UNCHANGED <<mode, pc, fut, ops, early, waiterq, observed, err, dpVars, xVars, srcKind,
                   src_key, listing, todo, total_bytes, pbar_n, unitSize, dstDirs,
                   dstFiles, dstParent, dst0>>

\* A source file or directory is removed, with all below it.
EnvRemove(k) ==
    /\ mode \in LocalModes /\ pc \in {"enum", "progress"}
    /\ changes < MaxChanges
    /\ srcKind[k] # "none"
    /\ srcKind' = [j \in Nodes |-> IF IsUnder(j, k) THEN "none" ELSE srcKind[j]]
    /\ srcSize' = [j \in Nodes |-> IF IsUnder(j, k) THEN 0 ELSE srcSize[j]]
    /\ changes' = changes + 1
    /\ UNCHANGED <<mode, pc, fut, ops, early, waiterq, observed, err, dpVars, xVars,
                   src_key, listing, todo, total_bytes, pbar_n, unitSize, dstDirs,
                   dstFiles, dstParent, dst0>>

NextCopy ==
    \/ LLVisit
    \/ LLReturn
    \/ UpVisit
    \/ DownVisit
    \/ ListFail
    \/ \E f \in DOMAIN fut, outcome \in Done : TransferFinish(f, outcome)
    \/ CopyEnterProgress
    \/ \E f \in DOMAIN fut : CopyObserve(f)
    \/ CopyReturn
    \/ \E k \in Nodes, size \in 1..MaxSize : EnvResize(k, size)
    \/ \E k \in Nodes : EnvRemove(k)

SpecCopy == InitCopy /\ [][NextCopy]_vars

\* ------------------------------------------------- claims on do_parallel

\* How often x occurs in the sequence s.
Count(s, x) == Cardinality({i \in DOMAIN s : s[i] = x})

\* The first failed invocation in the order the invocations finished (0: none).
FirstFailure(order) ==
    IF \E i \in DOMAIN order : fut[order[i]] = "err"
    THEN order[CHOOSE i \in DOMAIN order :
                 /\ fut[order[i]] = "err"
                 /\ \A j \in 1..(i - 1) : fut[order[j]] # "err"]
    ELSE 0

\* C1: when do_parallel returns (no invocation raised), the list it returns
\* has exactly N pairs, and every pair (item, func(item)) occurs in it exactly
\* as often as the item occurs in the input, whatever the width and the order
\* in which the workers finished.
C1_EachItemOnce ==
    (mode = "do_parallel" /\ pc = "returned") =>
        /\ Len(results) = Len(items)
        /\ \A i \in DOMAIN items :
             Count(results, <<items[i], Func(items[i])>>) = Count(items, items[i])
        /\ \A k \in DOMAIN results :
             \E i \in DOMAIN items : results[k] = <<items[i], Func(items[i])>>

\* C1 witness: a run over three items, two of them equal, on a pool narrower
\* than the input, that returned after observing the items out of input order.
C1_Witness ==
    /\ mode = "do_parallel" /\ pc = "returned"
    /\ Len(items) >= 3 /\ items[1] = items[2]
    /\ n # -1 /\ n < Len(items)
    /\ observed[1] # 1

\* C2 as claimed: the caller sees the error only once every other invocation
\* has finished, and the error is that of the invocation that failed first in
\* completion order.
C2_FirstFailureInCompletionOrder ==
    (mode = "do_parallel" /\ pc = "raised") =>
        /\ \A f \in DOMAIN fut : fut[f] \in Done
        /\ err.id = FirstFailure(finishOrder)

\* C2 amended: the caller sees the error only once every invocation has
\* finished (none was cancelled); the error is the first failure in the order
\* as_completed yielded the futures, which is the first failure in completion
\* order unless that one and the re-raised one had both finished before the
\* result loop was entered.
C2_DrainThenFirstObservedFailure ==
    (mode = "do_parallel" /\ pc = "raised") =>
        /\ \A f \in DOMAIN fut : fut[f] \in Done
        /\ Range(finishOrder) = DOMAIN items
        /\ err.id = FirstFailure(observed)
        /\ err.id = observed[Len(observed)]
        /\ err.id # FirstFailure(finishOrder) =>
              {err.id, FirstFailure(finishOrder)} \subseteq earlyAtEntry

\* C2 witness: exactly one of three items failed, it was observed while
\* another invocation was still waiting for a worker, and the error has
\* reached the caller.
C2_Witness ==
    /\ mode = "do_parallel" /\ pc = "raised"
    /\ Len(items) >= 3
    /\ Cardinality({f \in DOMAIN fut : fut[f] = "err"}) = 1
    /\ pendingAtFail # {}

\* C3 as claimed: the items still waiting for a worker when the first
\* failure is observed never begin executing.
C3_NoStartAfterFailure ==
    mode = "do_parallel" => \A f \in pendingAtFail : fut[f] = "queued"

\* C3 amended: observing a failure does not stop dispatch. Every item was
\* submitted to the pool before the first completion was observed, and the
\* items still waiting for a worker when the first failure is observed are
\* run all the same: each has finished by the time the error reaches the
\* caller.
C3_QueuedItemsStillRun ==
    mode = "do_parallel" =>
        /\ (observed # <<>> => Len(ops) = Len(items))
        /\ (pc = "raised" => \A f \in pendingAtFail : fut[f] \in Done)

\* C3 witness: width below N, two items were waiting when the first failure
\* was observed, and the error has reached the caller.
C3_Witness ==
    /\ mode = "do_parallel" /\ pc = "raised"
    /\ n # -1 /\ n < Len(items)
    /\ Cardinality(pendingAtFail) >= 2

\* C4: the items are submitted in input order (and the pool queue keeps that
\* order), and the returned list is ordered as the completions were
\* observed: its k-th pair is that of the k-th future as_completed yielded.
\* Futures that finish after the loop was entered are observed in the order
\* they finish.
C4_SubmitInOrderResultsAsObserved ==
    mode = "do_parallel" =>
        /\ \A k \in DOMAIN ops : ops[k] = k
        /\ \A j, k \in DOMAIN queue : j < k => queue[j] < queue[k]
        /\ Len(results) <= Len(observed)
        /\ \A k \in DOMAIN results : results[k] = <<items[observed[k]], Func(items[observed[k]])>>
        /\ \A j, k \in DOMAIN observed :
             (j < k /\ observed[j] \notin earlyAtEntry /\ observed[k] \notin earlyAtEntry) =>
                 \E a, b \in DOMAIN finishOrder :
                     a < b /\ finishOrder[a] = observed[j] /\ finishOrder[b] = observed[k]

\* C4 witness: two different items were observed in the reverse of their
\* input order, and the returned list starts with the later one.
C4_Witness ==
    /\ mode = "do_parallel" /\ pc = "returned"
    /\ Len(items) >= 2 /\ items[1] # items[2]
    /\ observed[1] = 2
    /\ results[1] = <<items[2], Func(items[2])>>
    /\ \E k \in DOMAIN results : k > 1 /\ results[k] = <<items[1], Func(items[1])>>

\* C5: the number of invocations executing at once never exceeds the width;
\* with n left at -1 the width is the number of items.
C5_AtMostWidthRunning ==
    mode = "do_parallel" =>
        /\ (n # -1 => Cardinality(Running) <= n)
        /\ (n = -1 => Cardinality(Running) <= Len(items))

\* C5 witness: n was left at -1 and all of three items are executing at once.
C5_Witness ==
    /\ mode = "do_parallel" /\ n = -1
    /\ Len(items) >= 3
    /\ Running = DOMAIN items

\* C6 as claimed: when the run is over the hook has fired exactly once for
\* every item, the item whose invocation raised included.
C6_HookOncePerItem ==
    (mode = "do_parallel" /\ pc \in {"returned", "raised"}) =>
        /\ Len(hooked) = Len(items)
        /\ Range(hooked) = DOMAIN items

\* C6 amended: the hook fires exactly once for every item whose completion
\* the loop observed as a success, in the order observed, and never for the
\* item whose invocation raised nor for an item not yet observed when the
\* error was raised; over a run that returns it has fired N times, once per
\* item.
C6_HookOncePerObservedSuccess ==
    mode = "do_parallel" =>
        /\ hooked = [k \in 1..Len(results) |-> observed[k]]
        /\ \A f \in DOMAIN fut : Count(hooked, f) <= 1
        /\ \A k \in DOMAIN hooked : fut[hooked[k]] = "ok"
        /\ err.id \notin Range(hooked)
        /\ (pc = "returned" => Len(hooked) = Len(items) /\ Range(hooked) = DOMAIN items)
        /\ (pc = "raised" => Len(hooked) < Len(items))

\* C6 witness: a run over three items raised after the hook had fired for
\* one item; a third item succeeded without ever being reported.
C6_Witness ==
    /\ mode = "do_parallel" /\ pc = "raised"
    /\ Len(items) >= 3
    /\ Len(hooked) = 1
    /\ \E f \in DOMAIN fut : fut[f] = "ok" /\ f \notin Range(hooked)

\* --------------------------------------------------- claims on the copies

RECURSIVE SumSizes(_)
SumSizes(fs) == IF fs = <<>> THEN 0 ELSE unitSize[Head(fs)] + SumSizes(Tail(fs))

Started == {f \in DOMAIN fut : fut[f] # "none"}

\* The destination is as it was when the copy was called.
DstUnchanged ==
    dstDirs = dst0.dirs /\ dstFiles = dst0.files /\ dstParent = dst0.parent

\* The nodes the walk has not reached: those still to visit and all below them.
NotReached == {j \in Nodes : \E i \in DOMAIN todo : IsUnder(j, todo[i])}

\* The enumeration itself failed: the listing raised, or a path of the walk
\* was gone when it was reached.
EnumerationFailed ==
    /\ mode \in LocalModes \cup FutureModes /\ pc = "raised"
    /\ err.phase = "enum"
    /\ err.kind \in {"ListingError", "FileNotFoundError:src"}

\* C7 as claimed: the bytes reported as completed never decrease and never
\* exceed the total computed at enumeration, also when a file's size changes
\* between enumeration and completion.
C7_ReportedNeverExceedsTotal ==
    [][(mode \in FutureModes /\ pc' \in {"progress", "returned", "raised"}) =>
          (pbar_n <= pbar_n' /\ pbar_n' <= total_bytes')]_vars

\* C8 as claimed: the total is the exact sum of the unit sizes, and no upload
\* or download is started while the enumeration is still in progress, that
\* is, while paths or objects remain to be enumerated.
C8_NoTransferDuringEnumeration ==
    mode \in FutureModes =>
        /\ (pc \in {"progress", "returned"} => total_bytes = SumSizes(ops))
        /\ ((pc = "enum" /\ todo # <<>>) => Started = {})

\* C8 amended: the total is the exact sum of the sizes of all units as read
\* at enumeration and is complete before the first completion is awaited or
\* reported; the transfers themselves are dispatched during enumeration, one
\* per unit as it is reached, and none afterwards.
C8_TotalBeforeProgress ==
    mode \in FutureModes =>
        /\ (pc \in {"progress", "returned"} =>
               /\ total_bytes = SumSizes(ops)
               /\ todo = <<>>)
        /\ (pc = "enum" => observed = <<>> /\ pbar_n = 0)
        /\ Started = Range(ops)
        /\ \A f \in DOMAIN fut : Count(ops, f) <= 1
        /\ (mode = "s3_local" => Range(ops) \cap Range(todo) = {})

\* C8 witness: the progress loop is entered with two units totalling three
\* bytes, one of which had finished while the enumeration was going on.
C8_Witness ==
    /\ mode \in FutureModes /\ pc = "progress"
    /\ Len(ops) >= 2 /\ total_bytes = 3
    /\ early # {} /\ observed = <<>>

C10_MissingSourceLeavesDestination ==
    (mode = "local_local" /\ srcKind[1] = "none" /\ changes = 0) =>
        /\ pc \in {"enum", "raised"}
        /\ pc = "enum" => todo = <<1>> /\ err = NoErr
        /\ pc = "raised" => err.kind = "FileNotFoundError:src" /\ err.id = 1
        /\ DstUnchanged

\* C10 witness: the copy of a missing source onto an existing directory has
\* failed.
C10_Witness ==
    /\ mode = "local_local" /\ srcKind[1] = "none" /\ changes = 0
    /\ pc = "raised"
    /\ dst0.dirs = {<<>>}

\* ---- C14: a failed transfer and the completed-byte count

\* The futures the loop observed before the one it observed last.
ObservedBefore == SubSeq(observed, 1, Len(observed) - 1)

\* C14 as claimed: after a failed upload or download is observed, the
\* completed-byte count equals the sum of the sizes of the units observed to
\* succeed before it; the failed unit's bytes are not added.
C14_FailedUnitNotCredited ==
    (mode \in FutureModes /\ pc = "raised" /\ err.kind = "TransferError") =>
        pbar_n = SumSizes(ObservedBefore)

\* ---- C15: directories and files in copy_local_local

\* C15 as claimed: the whole destination directory structure exists before
\* any file is copied: once a file has been copied, no later step of the copy
\* creates a directory.
C15_DirectoriesBeforeFiles ==
    [][(mode = "local_local" /\ dstFiles # dst0.files) => dstDirs' = dstDirs]_vars

\* C15, amended: the one walk creates each directory when it reaches it, not
\* before: no directory of a node the walk has not reached has been created,
\* and every file copied lies in directories that exist.
C15_DirectoriesAsReached ==
    mode = "local_local" =>
        /\ \A j \in NotReached : RelPath(j) \notin dstDirs \ dst0.dirs
        /\ \A p \in dstFiles \ dst0.files : Ancestors(p) \subseteq dstDirs

\* A file was copied and a directory enumerated after it was created later:
\* node 2 is a file, node 3 a directory, and the walk visits 2 before 3.
C15_Witness ==
    /\ mode = "local_local" /\ changes = 0
    /\ srcKind[2] = "file" /\ srcKind[3] = "dir"
    /\ RelPath(2) \in dstFiles \ dst0.files
    /\ RelPath(3) \in dstDirs \ dst0.dirs

\* ---- C18: the destinations of the downloads of copy_s3_local

\* C18 as claimed: each listed object has at most one download, and no two
\* downloads that run at the same time write to the same local file.
C18_DistinctDestinations ==
    mode = "s3_local" =>
        /\ \A i, j \in DOMAIN ops : ops[i] = ops[j] => i = j
        /\ \A f, g \in DOMAIN listing :
              (f # g /\ fut[f] = "running" /\ fut[g] = "running") =>
                  DestPath(listing[f].key) # DestPath(listing[g].key)

\* ---- C19: what holds when copy_local_s3 or copy_s3_local returns

\* C19 as claimed: the call returns normally only after every dispatched
\* unit completed successfully, and the bytes reported as completed then
\* equal the total computed at enumeration.
C19_ReturnMeansAllDoneAndAllBytes ==
    (mode \in FutureModes /\ pc = "returned") =>
        /\ \A f \in Range(ops) : fut[f] = "ok"
        /\ pbar_n = total_bytes

\* ------------------------------------------------------ ConcurrentCounter

MaxThreads == 2     \* threads that call increment
MaxCalls == 3       \* calls of increment in one behaviour

\* multiprocessing.Value("i", 0): a C int of 32 bits.
MaxInt32 == 2147483647
MinInt32 == -MaxInt32 - 1

Threads == 1..MaxThreads

\* The arguments of increment, and the bounds a counter is constructed with.
IncVals == {-2, 1, MaxInt32}
BoundVals == {None, <<-1>>, <<1>>}

\* A Python integer is unbounded: v + q * 2^32 with v a 32-bit value.
PyInt(v) == [q |-> 0, v |-> v]

\* line 85: self.val.value + n, exactly.
PyAdd(x, k) ==
    IF k > 0 /\ x.v > MaxInt32 - k
    THEN [q |-> x.q + 1, v |-> (x.v + MinInt32) + (k + MinInt32)]
    ELSE IF k < 0 /\ x.v < MinInt32 - k
    THEN [q |-> x.q - 1, v |-> (x.v - MinInt32) + (k - MinInt32)]
    ELSE [q |-> x.q, v |-> x.v + k]

\* x < m for a Python integer x and a 32-bit m.
PyLess(x, m) == x.q < 0 \/ (x.q = 0 /\ x.v < m)
PyGreater(x, m) == x.q > 0 \/ (x.q = 0 /\ x.v > m)

\* lines 86-87: max(new_val, self.min_value) when a minimum is set.
ClampMin(x) ==
    IF min_value # None /\ PyLess(x, min_value[1]) THEN PyInt(min_value[1]) ELSE x

\* lines 88-89: min(new_val, self.max_value) when a maximum is set.
ClampMax(x) ==
    IF max_value # None /\ PyGreater(x, max_value[1]) THEN PyInt(max_value[1]) ELSE x

\* line 90: the store into the C int keeps the low 32 bits.
CInt(x) == x.v

\* The transfer helpers are not in use.
IdleTransfers ==
    /\ fut = <<>> /\ ops = <<>> /\ early = {} /\ waiterq = <<>> /\ observed = <<>>
    /\ err = NoErr
    /\ items = <<>> /\ n = -1 /\ queue = <<>> /\ results = <<>> /\ hooked = <<>>
    /\ finishOrder = <<>> /\ pendingAtFail = {} /\ earlyAtEntry = {}
    /\ srcKind = <<>> /\ srcSize = <<>> /\ src_key = <<>> /\ listing = <<>>
    /\ todo = <<>> /\ total_bytes = 0 /\ pbar_n = 0 /\ unitSize = <<>>
    /\ dstDirs = {} /\ dstFiles = {} /\ dstParent = TRUE
    /\ dst0 = [dirs |-> {}, files |-> {}, parent |-> TRUE]
    /\ changes = 0

\* lines 78-81: __init__.
InitCounter ==
    /\ mode = "counter"
    /\ pc = "none"
    /\ IdleTransfers
    /\ IdleWait
    /\ IdleParse
    /\ val = 0
    /\ lock = 0
    /\ min_value \in BoundVals
    /\ max_value \in BoundVals
    /\ tpc = [t \in Threads |-> "idle"]
    /\ targ = [t \in Threads |-> 0]
    /\ tnew = [t \in Threads |-> PyInt(0)]
    /\ ncalls = 0
    /\ sumN = PyInt(0)

notCounter ==
    <<mode, pc, fut, ops, early, waiterq, observed, err, dpVars, cpVars, wfVars, ppVars>>

\* A thread calls increment(k).
IncCall(t, k) ==
    /\ mode = "counter" /\ tpc[t] = "idle"
    /\ ncalls < MaxCalls
    /\ ncalls' = ncalls + 1
    /\ tpc' = [tpc EXCEPT ![t] = "lock"]
    /\ targ' = [targ EXCEPT ![t] = k]
    /\ UNCHANGED <<notCounter, val, lock, min_value, max_value, tnew, sumN>>

\* Whether get_lock() can be taken.
LockAlwaysFree == TRUE
LockFree == lock = 0

\* line 84: with self.val.get_lock().
IncLock(t) ==
    /\ mode = "counter" /\ tpc[t] = "lock"
    /\ LockFree
    /\ lock' = t
    /\ tpc' = [tpc EXCEPT ![t] = "compute"]
    /\ UNCHANGED <<notCounter, val, min_value, max_value, targ, tnew, ncalls, sumN>>

\* lines 85-89: new_val is computed from the value read and clamped.
IncCompute(t) ==
    /\ mode = "counter" /\ tpc[t] = "compute"
    /\ tnew' = [tnew EXCEPT ![t] = ClampMax(ClampMin(PyAdd(PyInt(val), targ[t])))]
    /\ tpc' = [tpc EXCEPT ![t] = "store"]
    /\ UNCHANGED <<notCounter, val, lock, min_value, max_value, targ, ncalls, sumN>>

\* line 90: self.val.value = new_val.
IncStore(t) ==
    /\ mode = "counter" /\ tpc[t] = "store"
    /\ val' = CInt(tnew[t])
    /\ sumN' = PyAdd(sumN, targ[t])
    /\ tpc' = [tpc EXCEPT ![t] = "unlock"]
    /\ UNCHANGED <<notCounter, lock, min_value, max_value, targ, tnew, ncalls>>

\* line 91: the lock is released and increment returns.
IncReturn(t) ==
    /\ mode = "counter" /\ tpc[t] = "unlock"
    /\ lock' = IF lock = t THEN 0 ELSE lock
    /\ tpc' = [tpc EXCEPT ![t] = "idle"]
    /\ UNCHANGED <<notCounter, val, min_value, max_value, targ, tnew, ncalls, sumN>>

NextCounter ==
    \/ \E t \in Threads, k \in IncVals : IncCall(t, k)
    \/ \E t \in Threads : IncLock(t)
    \/ \E t \in Threads : IncCompute(t)
    \/ \E t \in Threads : IncStore(t)
    \/ \E t \in Threads : IncReturn(t)

SpecCounter == InitCounter /\ [][NextCounter]_vars

\* ---- C16: state shared between threads

\* The counter together with do_parallel: the two places where more than one
\* thread works on shared state.
SpecShared == (InitDP \/ InitCounter) /\ [][NextDP \/ NextCounter]_vars

Unbounded == mode = "counter" /\ min_value = None /\ max_value = None

Quiescent == \A t \in Threads : tpc[t] = "idle"

\* A step that changes the result list is an iteration of the calling
\* thread's loop over as_completed, never a step of a worker.
AppendedByCaller ==
    (mode = "do_parallel" /\ results' # results) =>
        (pc = "loop" /\ fut' = fut /\ Len(observed') = Len(observed) + 1)

\* C16 as claimed: with no bounds, once the concurrent increment(n_i) calls
\* have returned the value equals the sum of the n_i; and the result list of
\* do_parallel is appended to only by the calling thread.
C16_ValueIsSum ==
    /\ []((Unbounded /\ Quiescent) => (sumN.q = 0 /\ val = sumN.v))
    /\ [][AppendedByCaller]_vars

\* C16, amended: no update is lost: the value is the sum of the n_i of the
\* increments stored so far, kept to the 32 bits of the C int (so it is the
\* sum itself whenever the sum fits); and the result list of do_parallel is
\* appended to only by the calling thread.
C16_NoLostUpdate ==
    /\ [](Unbounded => val = sumN.v)
    /\ [][AppendedByCaller]_vars

\* One thread has stored its increment and still holds the lock, the other
\* waits for the lock, and the sum has left the range of the C int.
C16_Witness ==
    /\ Unbounded
    /\ tpc[1] = "unlock" /\ tpc[2] = "lock"
    /\ sumN.q = 1 /\ val = sumN.v

\* ---- C17: the bounds of a ConcurrentCounter

\* min_value <= max_value, where both are set.
BoundsOrdered == min_value = None \/ max_value = None \/ min_value[1] <= max_value[1]

\* The value respects the bounds that are set.
WithinBounds ==
    /\ min_value # None => val >= min_value[1]
    /\ max_value # None => val <= max_value[1]

\* C17 as claimed: a counter constructed with min_value and/or max_value
\* (min_value <= max_value) holds a value within the bounds in every
\* reachable state, from construction on.
C17_AlwaysWithinBounds ==
    (mode = "counter" /\ BoundsOrdered) => WithinBounds

\* --------------------------------------------------------------- wait_for

MaxTime == 3        \* the clock runs from 0 to MaxTime and stays there

Timeouts == -1..(MaxTime - 1)
Intervals == {0, 1}

\* Time passes: the clock is d later (it is not followed beyond MaxTime,
\* which no timeout reaches).
Later(d) == IF now + d > MaxTime THEN MaxTime ELSE now + d

notWait == <<fut, ops, early, waiterq, observed, err, dpVars, cpVars, ccVars, ppVars>>

InitWait ==
    /\ mode = "wait_for"
    /\ pc = "call"
    /\ IdleTransfers
    /\ IdleCounter
    /\ IdleParse
    /\ now \in {0, 1} /\ start = 0
    /\ timeout \in Timeouts
    /\ interval \in Intervals
    /\ polled = FALSE /\ lastPoll = "none" /\ returnValue = "none"

\* line 37: start = time.time(); line 38 sets up the progress bar.
WfStart ==
    /\ mode = "wait_for" /\ pc = "call"
    /\ start' = now
    /\ pc' = "while"
    /\ UNCHANGED <<mode, notWait, now, timeout, interval, polled, lastPoll,
                   returnValue>>

\* line 39: the loop condition.
TimeLeftInclusive == now - start <= timeout
TimeLeft == now - start < timeout

\* lines 39 and 45: the loop goes on to call fn, or ends and Timeout is raised.
WfCheck ==
    /\ mode = "wait_for" /\ pc = "while"
    /\ pc' = IF TimeLeft THEN "fn" ELSE "raised"
    /\ UNCHANGED <<mode, notWait, now, start, timeout, interval, polled, lastPoll,
                   returnValue>>

\* lines 40-42: fn returns r; on a true value wait_for returns True.
WfPoll(r) ==
    /\ mode = "wait_for" /\ pc = "fn"
    /\ polled' = TRUE
    /\ lastPoll' = r
    /\ IF r = "truthy" THEN pc' = "returned" /\ returnValue' = "True"
                       ELSE pc' = "sleep" /\ UNCHANGED returnValue
    /\ UNCHANGED <<mode, notWait, now, start, timeout, interval>>

\* lines 43-44: time.sleep(interval) ends after interval or later.
WfSleep(d) ==
    /\ mode = "wait_for" /\ pc = "sleep"
    /\ d >= interval
    /\ now' = Later(d)
    /\ pc' = "while"
    /\ UNCHANGED <<mode, notWait, start, timeout, interval, polled, lastPoll,
                   returnValue>>

\* Time passes once start is taken: while the progress bar is set up, between
\* two lines of the loop, while fn runs and while wait_for sleeps.
Tick ==
    /\ mode = "wait_for" /\ pc \in {"while", "fn", "sleep"}
    /\ now < MaxTime
    /\ now' = now + 1
    /\ UNCHANGED <<mode, pc, notWait, start, timeout, interval, polled, lastPoll,
                   returnValue>>

WfStep ==
    \/ WfStart
    \/ WfCheck
    \/ \E r \in {"truthy", "falsy"} : WfPoll(r)
    \/ \E d \in 0..2 : WfSleep(d)

NextWait == WfStep \/ Tick

SpecWait == InitWait /\ [][NextWait]_vars

\* The thread keeps running and fn returns (WfStep is taken when it can be),
\* and time advances.
SpecWaitFair == SpecWait /\ WF_vars(WfStep) /\ WF_vars(Tick)

\* ---- C20: wait_for ends, and how

Terminal == pc \in {"returned", "raised"}

Elapsed == now - start

Chars_s3 == <<"s", "3", ":", "/", "/">>
Chars_gs == <<"g", "s", ":", "/", "/">>
Chars_https == <<"h", "t", "t", "p", "s", ":", "/", "/">>
Chars_http == <<"h", "t", "t", "p", ":", "/", "/">>
Chars_blob == <<"b", "l", "o", "b", ".", "c", "o", "r", "e", ".", "w", "i", "n", "d", "o", "w", "s", ".", "n", "e", "t">>

\* str.startswith(prefix)
StartsWith(s, prefix) ==
    Len(s) >= Len(prefix) /\ SubSeq(s, 1, Len(prefix)) = prefix

\* s[k:], for 0 <= k
From(s, k) == SubSeq(s, k + 1, Len(s))

\* sub in s
Contains(s, sub) ==
    \E i \in 0..(Len(s) - Len(sub)) : SubSeq(s, i + 1, i + Len(sub)) = sub

\* The positions of "/" in s.
Slashes(s) == {i \in DOMAIN s : s[i] = "/"}

SetMin(S) == CHOOSE x \in S : \A y \in S : x <= y
SetMax(S) == CHOOSE x \in S : \A y \in S : x >= y

\* s.split("/", 1): one part if s has no "/", else the parts before and
\* after its first "/".
Split1(s) ==
    IF Slashes(s) = {} THEN <<s>>
    ELSE LET i == SetMin(Slashes(s))
         IN  <<SubSeq(s, 1, i - 1), From(s, i)>>

\* What parse_path returns: a tuple of a tag and fields, each field None or
\* <<string>>; or a bare string; or it raises ValueError.
ReturnTuple(tag, fields) == [ret |-> "tuple", tag |-> tag, f |-> fields]
ReturnStr(s) == [ret |-> "str", tag |-> "", f |-> << <<s>> >>]
RaiseValueError == [ret |-> "ValueError", tag |-> "", f |-> <<>>]

\* lines 32-33 and 35-36: bucket_name, key_name = path[5:].split("/", 1);
\* unpacking a single part raises ValueError.
BucketAndKey(tag, path) ==
    LET parts == Split1(From(path, 5))
    IN  IF Len(parts) = 2
        THEN ReturnTuple(tag, << <<parts[1]>>, <<parts[2]>> >>)
        ELSE RaiseValueError

\* line 38, the part of the pattern after the first group:
\* .blob.core.windows.net/ where "." stands for any character.
HostPattern == <<".">> \o Chars_blob \o <<"/">>

\* Whether s, from position i on, continues with the pattern.
PatternAt(s, i, pat) ==
    /\ i + Len(pat) - 1 <= Len(s)
    /\ \A j \in DOMAIN pat : pat[j] = "." \/ s[i + j - 1] = pat[j]

\* line 38-39: regex.match(path) for
\* https?://([^/]+).blob.core.windows.net/([^/]+)/(.*) on the part of the path
\* after the scheme: the lengths the first group can have. After the host
\* pattern the second group takes the characters up to the next "/", which
\* must exist and leave the group non-empty.
FirstGroupLengths(s) ==
    {g \in 1..Len(s) :
        /\ \A i \in 1..g : s[i] # "/"
        /\ PatternAt(s, g + 1, HostPattern)
        /\ LET rest == From(s, g + Len(HostPattern))
           IN  Slashes(rest) # {} /\ SetMin(Slashes(rest)) > 1}

\* lines 38-43: the groups of the match, or ValueError when there is none.
\* [^/]+ is greedy: the first group is the longest that lets the rest match.
AzureGroups(s) ==
    IF FirstGroupLengths(s) = {} THEN RaiseValueError
    ELSE LET g == SetMax(FirstGroupLengths(s))
             rest == From(s, g + Len(HostPattern))
             parts == Split1(rest)
         IN  ReturnTuple("azure", << <<SubSeq(s, 1, g)>>, <<parts[1]>>, <<parts[2]>> >>)

\* pathlib.Path(path): whether it is absolute, and its components.
RECURSIVE Components(_)
Components(s) ==
    IF s = <<>> THEN <<>>
    ELSE LET parts == Split1(s)
             rest == IF Len(parts) = 2 THEN Components(parts[2]) ELSE <<>>
         IN  IF parts[1] \in {<<>>, <<".">>} THEN rest ELSE <<parts[1]>> \o rest

PathOf(s) == [abs |-> StartsWith(s, <<"/">>), parts |-> Components(s)]

\* Path.parent: the path without its last component; "." and "/" are their
\* own parents.
PathParent(p) ==
    IF p.parts = <<>> THEN p
    ELSE [p EXCEPT !.parts = SubSeq(p.parts, 1, Len(p.parts) - 1)]

\* Path.exists(): the working directory and the root always exist.
PathExists(p) == p.parts = <<>> \/ p \in DOMAIN fileSystem

\* Path.is_dir()
PathIsDir(p) == p.parts = <<>> \/ (p \in DOMAIN fileSystem /\ fileSystem[p] = "dir")

\* lines 19-27
is_plausible_local_path(path) ==
    LET p == PathOf(path)
    IN  IF PathExists(p) THEN TRUE
        ELSE IF PathIsDir(p) THEN TRUE
        ELSE IF PathExists(PathParent(p)) THEN TRUE
        ELSE FALSE

\* lines 30-46
parse_path(path) ==
    IF StartsWith(path, Chars_s3) THEN BucketAndKey("s3", path)
    ELSE IF StartsWith(path, Chars_gs) THEN BucketAndKey("gs", path)
    ELSE IF (StartsWith(path, Chars_https) \/ StartsWith(path, Chars_http))
            /\ Contains(path, Chars_blob)
    THEN AzureGroups(From(path, IF StartsWith(path, Chars_https) THEN 8 ELSE 7))
    ELSE IF is_plausible_local_path(path)
    THEN ReturnTuple("local", <<None, <<path>> >>)
    ELSE ReturnStr(path)

\* The path strings parse_path is called with: the part after s3:// or gs://,
\* the part after the account of an Azure URL, and other strings.
BucketRests ==
    { <<"b">>,
      <<"b", "/">>,
      <<"b", "/", "k">>,
      <<"b", "/", "k", "/", "j">>,
      <<"/", "k">>,
      <<"b", "/", "/", "k">> }

Accounts == { <<"a">>, <<>>, <<"a", ".", "b">> }

Chars_dashed == <<"b", "l", "o", "b", "-", "c", "o", "r", "e", "-", "w", "i", "n", "d", "o", "w", "s", "-", "n", "e", "t">>

AzureTails ==
    { <<"/", "c", "/", "p">>,
      <<"/", "c", "/", "p", "/", "q">>,
      <<"/", "c", "/">>,
      <<"/", "c">>,
      <<>>,
      <<"/", "/", "p">> }
        \cup { <<"/">> \o Chars_dashed \o <<"/", "c", "/", "p">>,
               <<"/">> \o Chars_blob \o <<"/", "c", "/", "p">> }

OtherStrings ==
    { <<>>,
      <<"f">>,
      <<"d", "/", "f">>,
      <<"d", "/", "e", "/", "f">>,
      <<"/", "f">>,
      <<"/", "d", "/", "f">>,
      <<"d", "/", "/", "f">>,
      <<".", "/", "f">>,
      <<"s", "3", ":", "/", "b", "/", "k">>,
      <<"h", "t", "t", "p", ":", "/", "/", "h", "/", "f">> }
        \cup { Chars_https \o <<"h", "/">> \o Chars_blob \o <<"/", "c", "/", "p">> }

PathPool ==
    {pre \o r : pre \in {Chars_s3, Chars_gs}, r \in BucketRests}
        \cup {pre \o a \o <<".">> \o Chars_blob \o tl :
                 pre \in {Chars_https, Chars_http}, a \in Accounts, tl \in AzureTails}
        \cup OtherStrings

\* The file systems a path can meet: the first d components of the path
\* exist, the last of them as a file or a directory.
Prefix(p, i) == [p EXCEPT !.parts = SubSeq(p.parts, 1, i)]
FileSystems(p) ==
    {[q \in {Prefix(p, i) : i \in 1..d} |-> IF q = Prefix(p, d) THEN kind ELSE "dir"] :
        d \in 0..Len(p.parts), kind \in {"file", "dir"}}

NotCalled == [ret |-> "none", tag |-> "", f |-> <<>>]

notParse == <<fut, ops, early, waiterq, observed, err, dpVars, cpVars, ccVars, wfVars>>

InitParse ==
    /\ mode = "parse_path"
    /\ pc = "call"
    /\ IdleTransfers /\ IdleCounter /\ IdleWait
    /\ pathString \in PathPool
    /\ fileSystem \in FileSystems(PathOf(pathString))
    /\ parsed = NotCalled
    /\ dstString = <<>> /\ dstParsed = NotCalled /\ listCalls = 0

\* lines 30-46: one call of parse_path.
ParsePath ==
    /\ mode = "parse_path" /\ pc = "call"
    /\ parsed' = parse_path(pathString)
    /\ pc' = IF parsed'.ret = "ValueError" THEN "raised" ELSE "returned"
    /\ UNCHANGED <<mode, notParse, pathString, fileSystem, dstString, dstParsed, listCalls>>

NextParse == ParsePath

SpecParse == InitParse /\ [][NextParse]_vars

\* ---- C12: strings without a remote prefix

NoRemotePrefix(s) ==
    ~\E pre \in {Chars_s3, Chars_gs, Chars_https, Chars_http} : StartsWith(s, pre)

\* C12 as claimed: for a string that begins with no remote prefix parse_path
\* returns the local location ("local", None, path), whatever exists on the
\* file system; it neither raises nor returns a value of another shape.
C12_LocalWhateverExists ==
    (mode = "parse_path" /\ pc # "call" /\ NoRemotePrefix(pathString)) =>
        parsed = ReturnTuple("local", <<None, <<pathString>> >>)

\* ---- C13: the parts of a remote path

\* The ways to read s, the part of a path after its scheme, as B/K with no
\* "/" in B.
BucketForms(s) ==
    {<<SubSeq(s, 1, i - 1), From(s, i)>> :
        i \in {j \in Slashes(s) : \A k \in 1..(j - 1) : s[k] # "/"}}

\* The ways to read s, the part of a path after https://, as
\* A.blob.core.windows.net/C/P with A and C non-empty and without "/".
HostLiteral == <<".">> \o Chars_blob \o <<"/">>
AzureForms(s) ==
    {<<SubSeq(s, 1, g), Split1(From(s, g + Len(HostLiteral)))[1],
       Split1(From(s, g + Len(HostLiteral)))[2]>> :
        g \in {h \in 1..Len(s) :
                 /\ \A i \in 1..h : s[i] # "/"
                 /\ h + Len(HostLiteral) <= Len(s)
                 /\ SubSeq(s, h + 1, h + Len(HostLiteral)) = HostLiteral
                 /\ LET rest == From(s, h + Len(HostLiteral))
                    IN  Slashes(rest) # {} /\ SetMin(Slashes(rest)) > 1}}

\* C13 as claimed: s3://B/K and gs://B/K give the scheme, B and K, and
\* https://A.blob.core.windows.net/C/P gives azure, A, C and P.
C13_PartsAsWritten ==
    (mode = "parse_path" /\ pc # "call") =>
        /\ \A tag \in {"s3", "gs"} :
              LET pre == IF tag = "s3" THEN Chars_s3 ELSE Chars_gs
              IN  StartsWith(pathString, pre) =>
                     \A bk \in BucketForms(From(pathString, 5)) :
                         parsed = ReturnTuple(tag, << <<bk[1]>>, <<bk[2]>> >>)
        /\ StartsWith(pathString, Chars_https) =>
              \A acp \in AzureForms(From(pathString, 8)) :
                  parsed = ReturnTuple("azure", << <<acp[1]>>, <<acp[2]>>, <<acp[3]>> >>)

\* ------------------------------------------------- the transfer of two paths
\* The command that resolves a source and a destination and runs the copy is
\* not among the sources; it is modelled from the specification's
\* orchestrator: Resolving -> Enumerating -> Transferring -> Completed or
\* Failed, with parse_path as the resolver.

TransferPool ==
    { <<"s", "3", ":", "/", "/", "b", "/", "k">>,
      <<"g", "s", ":", "/", "/", "b", "/", "k">>,
      <<"s", "3", ":", "/", "/", "b">>,
      <<"f">>,
      <<"d", "/", "f">>,
      Chars_https \o <<"a", ".">> \o Chars_blob \o <<"/", "c", "/", "p">> }

\* A location on an object store.
IsRemote(loc) == loc.ret = "tuple" /\ loc.tag \in {"s3", "gs", "azure"}

\* The direction that is not supported: remote to remote.
UnsupportedNever(s, d) == FALSE
Unsupported(s, d) == IsRemote(s) /\ IsRemote(d)

InitTransfer ==
    /\ mode = "cp"
    /\ pc = "Resolving"
    /\ IdleTransfers /\ IdleCounter /\ IdleWait
    /\ pathString \in TransferPool
    /\ dstString \in TransferPool
    /\ fileSystem \in FileSystems(PathOf(pathString)) \cup FileSystems(PathOf(dstString))
    /\ parsed = NotCalled
    /\ dstParsed = NotCalled
    /\ listCalls = 0

TransferFail(kind) ==
    /\ pc' = "Failed"
    /\ err' = [kind |-> kind, id |-> 0, phase |-> pc]

notTransfer == <<mode, fut, ops, early, waiterq, observed, dpVars, cpVars, ccVars, wfVars>>

\* Resolving: the source string is resolved.
ResolveSource ==
    /\ mode = "cp" /\ pc = "Resolving"
    /\ parsed = NotCalled
    /\ parsed' = parse_path(pathString)
    /\ IF parsed'.ret = "ValueError"
       THEN TransferFail("InvalidPathError")
       ELSE UNCHANGED <<pc, err>>
    /\ UNCHANGED <<notTransfer, pathString, fileSystem, dstString, dstParsed, listCalls>>

\* Resolving: the destination string is resolved.
ResolveDestination ==
    /\ mode = "cp" /\ pc = "Resolving"
    /\ parsed # NotCalled /\ dstParsed = NotCalled
    /\ dstParsed' = parse_path(dstString)
    /\ IF dstParsed'.ret = "ValueError"
       THEN TransferFail("InvalidPathError")
       ELSE UNCHANGED <<pc, err>>
    /\ UNCHANGED <<notTransfer, pathString, fileSystem, parsed, dstString, listCalls>>

\* The end of Resolving: remote to remote fails, every other direction goes
\* on to Enumerating.
CheckDirection ==
    /\ mode = "cp" /\ pc = "Resolving"
    /\ parsed # NotCalled /\ dstParsed # NotCalled
    /\ IF Unsupported(parsed, dstParsed)
       THEN TransferFail("UnsupportedDirectionError")
       ELSE pc' = "Enumerating" /\ UNCHANGED err
    /\ UNCHANGED <<notTransfer, ppVars>>

\* Enumerating: a remote source is listed, a local one is walked; either
\* may fail.
Enumerate(ok) ==
    /\ mode = "cp" /\ pc = "Enumerating"
    /\ listCalls' = IF IsRemote(parsed) THEN listCalls + 1 ELSE listCalls
    /\ IF ok THEN pc' = "Transferring" /\ UNCHANGED err
             ELSE TransferFail(IF IsRemote(parsed) THEN "ListingError" ELSE "NotFoundError")
    /\ UNCHANGED <<notTransfer, pathString, fileSystem, parsed, dstString, dstParsed>>

\* Transferring: all units succeed, or one fails.
Transfer(ok) ==
    /\ mode = "cp" /\ pc = "Transferring"
    /\ IF ok THEN pc' = "Completed" /\ UNCHANGED err
             ELSE TransferFail("TransferError")
    /\ UNCHANGED <<notTransfer, ppVars>>

NextTransfer ==
    \/ ResolveSource
    \/ ResolveDestination
    \/ CheckDirection
    \/ \E ok \in BOOLEAN : Enumerate(ok)
    \/ \E ok \in BOOLEAN : Transfer(ok)

SpecTransfer == InitTransfer /\ [][NextTransfer]_vars

\* The command keeps running until it has completed or failed.
SpecTransferFair == SpecTransfer /\ WF_vars(NextTransfer)

\* ---- C11: remote to remote

\* Both strings resolve to remote locations.
BothRemote ==
    mode = "cp" /\ IsRemote(parse_path(pathString)) /\ IsRemote(parse_path(dstString))

\* C11: a transfer whose source and destination both resolve to remote
\* locations ends in Failed with UnsupportedDirectionError, and it does so
\* from Resolving: it is never in Enumerating or later, and no listing call
\* is made for it.
C11_RemoteToRemoteFailsFast ==
    /\ [](BothRemote =>
            /\ pc \in {"Resolving", "Failed"}
            /\ listCalls = 0
            /\ pc = "Failed" => err.kind = "UnsupportedDirectionError")
    /\ (BothRemote ~> pc = "Failed")

\* Both strings were resolved to remote locations and the transfer failed.
C11_Witness ==
    /\ BothRemote
    /\ IsRemote(parsed) /\ IsRemote(dstParsed)
    /\ pc = "Failed" /\ err.kind = "UnsupportedDirectionError"

=============================================================================
